---- MODULE Spec2Model ----
(***************************************************************************)
(* Graph construction of keras/applications/inception_resnet_v1.py.       *)
(*                                                                         *)
(* A tensor is represented by its static shape K.int_shape(x), a 4-tuple   *)
(* <<batch, d1, d2, d3>> (Python axes 0..3) or a 2-tuple after global      *)
(* pooling.  A layer is a record of its constructor arguments, the shapes  *)
(* it was called on and the shape it returns.  The graph is the sequence   *)
(* of layers in the order in which they were instantiated.                 *)
(*                                                                         *)
(* Residual scales are written in hundredths (0.17 is 17, 1. is 100).      *)
(***************************************************************************)
EXTENDS Integers, Sequences, FiniteSets, TLC

VARIABLES
    K,        \* backend configuration: image_data_format and backend
    args,     \* arguments of the call under way
    pc,       \* position in the function under way
    img_input,\* the tensor the local variable img_input is bound to
    x,        \* the tensor the local variable x is bound to
    layers,   \* every layer instantiated so far, in order
    block_idx,\* loop variable of the three block loops (0 before the first)
    model,    \* the Model object created at line 357 (Nil before)
    warns,    \* warnings.warn calls so far
    fetches,  \* get_file calls so far
    loads,    \* model.load_weights calls so far
    err,      \* the exception that left the function (None if none)
    result    \* the value returned to the caller (Nil if none)

vars == <<K, args, pc, img_input, x, layers, block_idx, model, warns, fetches, loads, err, result>>

\* Python's None: None where a string is expected, Nil where a tuple or an
\* object is expected
None == "None"
Nil == <<>>

(***************************************************************************)
(* Bounds of the model.                                                    *)
(***************************************************************************)
\* input sizes tried above the accepted minimum: MinSize .. MinSize + MaxExtra
MaxExtra == 1
\* spatial sizes of the tensors the helper functions are called on: 1 .. MaxDim
MaxDim == 3
\* channel counts of the tensors the helper functions are called on: 1 .. MaxChan
MaxChan == 2

(***************************************************************************)
(* Program constants.                                                      *)
(***************************************************************************)
DefaultSize == 299
MinSize == 139
DefaultClasses == 44051
BASE_WEIGHT_URL == "https://github.com/yunhaia/keras-inception-resnet-v2/releases/download/0.2/"
WeightsFilename == "inception_resnet_v1_weights_tf_dim_ordering_tf_kernels_notop.h5"
WeightsHash == "f691b708b23c3eb2e03a453625f4209c"

WeightsArgError == "The weights argument should be either None or imagenet"
ClassesError == "If using weights as imagenet with include_top as true, classes should be 44051"
NoTopError == "currently does not support top"
BlockTypeError == "Unknown Inception-ResNet block type."
InputShapeError == "invalid input shape"
DataFormatWarning == "You are using the TensorFlow backend, yet you are using the Theano image data format convention"

(***************************************************************************)
(* The layer primitives of the framework: constructor arguments and shape  *)
(* inference.  Python axis a of a shape s is s[a + 1].                     *)
(***************************************************************************)
At(s, axis) == s[axis + 1]

\* an int kernel size stands for a square kernel
Int2(n) == <<n, n>>

\* length of one spatial dimension after a convolution or pooling window
ConvOutLen(n, k, s, padding) ==
    IF padding = "same" THEN (n + s - 1) \div s
    ELSE (n - k + s) \div s

\* the spatial dimensions and the channel count of a 4D shape
Rows(s) == IF K.image_data_format = "channels_first" THEN At(s, 2) ELSE At(s, 1)
Cols(s) == IF K.image_data_format = "channels_first" THEN At(s, 3) ELSE At(s, 2)
Chans(s) == IF K.image_data_format = "channels_first" THEN At(s, 1) ELSE At(s, 3)

Shape4(batch, rows, cols, chans) ==
    IF K.image_data_format = "channels_first"
    THEN <<batch, chans, rows, cols>>
    ELSE <<batch, rows, cols, chans>>

Conv2D(t, filters, kernel_size, strides, padding, use_bias, name) ==
    [op |-> "Conv2D", name |-> name, filters |-> filters,
     kernel_size |-> kernel_size, strides |-> strides, padding |-> padding,
     use_bias |-> use_bias, ins |-> <<t>>,
     out |-> Shape4(At(t, 0),
                    ConvOutLen(Rows(t), kernel_size[1], strides, padding),
                    ConvOutLen(Cols(t), kernel_size[2], strides, padding),
                    filters)]

BatchNormalization(t, axis, scale, name) ==
    [op |-> "BatchNormalization", name |-> name, axis |-> axis,
     scale |-> scale, ins |-> <<t>>, out |-> t]

Activation(t, activation, name) ==
    [op |-> "Activation", name |-> name, activation |-> activation,
     ins |-> <<t>>, out |-> t]

MaxPooling2D(t, pool_size, strides, padding) ==
    [op |-> "MaxPooling2D", name |-> None, pool_size |-> pool_size,
     strides |-> strides, padding |-> padding, ins |-> <<t>>,
     out |-> Shape4(At(t, 0),
                    ConvOutLen(Rows(t), pool_size, strides, padding),
                    ConvOutLen(Cols(t), pool_size, strides, padding),
                    Chans(t))]

RECURSIVE SumAt(_, _)
SumAt(ts, axis) ==
    IF ts = <<>> THEN 0 ELSE At(Head(ts), axis) + SumAt(Tail(ts), axis)

Concatenate(ts, axis, name) ==
    [op |-> "Concatenate", name |-> name, axis |-> axis, ins |-> ts,
     out |-> [a \in 1..4 |-> IF a = axis + 1 THEN SumAt(ts, axis) ELSE ts[1][a]]]

\* Lambda with a declared output_shape: the batch size of the first input
\* followed by output_shape
Lambda(ts, output_shape, scale, name) ==
    [op |-> "Lambda", name |-> name, scale |-> scale, ins |-> ts,
     out |-> <<At(ts[1], 0)>> \o output_shape]

GlobalAveragePooling2D(t, name) ==
    [op |-> "GlobalAveragePooling2D", name |-> name, ins |-> <<t>>,
     out |-> <<At(t, 0), Chans(t)>>]

GlobalMaxPooling2D(t, name) ==
    [op |-> "GlobalMaxPooling2D", name |-> name, ins |-> <<t>>,
     out |-> <<At(t, 0), Chans(t)>>]

Dense(t, units, activation, name) ==
    [op |-> "Dense", name |-> name, units |-> units,
     activation |-> activation, ins |-> <<t>>,
     out |-> <<At(t, 0), units>>]

(***************************************************************************)
(* A builder value g is the graph so far and the tensor just produced.     *)
(* Call(g, l) is `t = l`, for a layer l called on g.x: the layer joins the *)
(* graph and t is its output.  On(g, t) continues from the graph of g with *)
(* tensor t as the input.  Bind(e, F) is `v = e; F(v)`: e is evaluated     *)
(* once, however often F uses it.                                          *)
(***************************************************************************)
Bind(e, F(_)) == CHOOSE r \in {F(v) : v \in {e}} : TRUE

Call(g, l) == [layers |-> Append(g.layers, l), x |-> l.out]

On(g, t) == [layers |-> g.layers, x |-> t]

(***************************************************************************)
(* conv2d_bn, lines 56-92.                                                 *)
(***************************************************************************)
\* conv2d_bn without the test of line 85: the normalization is always added
conv2d_bn_always_bn(g, filters, kernel_size, strides, padding, activation, use_bias, name) ==
    LET c == Bind(g, LAMBDA v : Call(v, Conv2D(v.x, filters, kernel_size, strides, padding, use_bias, name)))
        bn_axis == IF K.image_data_format = "channels_first" THEN 1 ELSE 3
        bn_name == IF name = None THEN None ELSE name \o "_bn"
        n == Bind(c, LAMBDA v : Call(v, BatchNormalization(v.x, bn_axis, FALSE, bn_name)))
        ac_name == IF name = None THEN None ELSE name \o "_ac"
    IN  IF activation # None
        THEN Bind(n, LAMBDA v : Call(v, Activation(v.x, activation, ac_name)))
        ELSE n

conv2d_bn(g, filters, kernel_size, strides, padding, activation, use_bias, name) ==
    LET c == Bind(g, LAMBDA v : Call(v, Conv2D(v.x, filters, kernel_size, strides, padding, use_bias, name)))
        bn_axis == IF K.image_data_format = "channels_first" THEN 1 ELSE 3
        bn_name == IF name = None THEN None ELSE name \o "_bn"
        n == IF ~use_bias
             THEN Bind(c, LAMBDA v : Call(v, BatchNormalization(v.x, bn_axis, FALSE, bn_name)))
             ELSE c
        ac_name == IF name = None THEN None ELSE name \o "_ac"
    IN  IF activation # None
        THEN Bind(n, LAMBDA v : Call(v, Activation(v.x, activation, ac_name)))
        ELSE n

\* conv2d_bn(x, filters, kernel_size) with the defaults of lines 59-63
conv2d_bn_default(g, filters, kernel_size) ==
    conv2d_bn(g, filters, kernel_size, 1, "same", "relu", FALSE, None)

(***************************************************************************)
(* inception_resnet_block, lines 95-171.  The value returned is the graph, *)
(* the output tensor and the exception raised (None when it returns).      *)
(***************************************************************************)
BlockTypes == {"block35", "block17", "block8"}

\* lines 130-149: the branches of the residual function, built on tensor g.x
Branches(g, block_type) ==
    IF block_type = "block35" THEN
        Bind(conv2d_bn_default(g, 32, Int2(1)), LAMBDA branch_0 :
        Bind(conv2d_bn_default(
                 conv2d_bn_default(On(branch_0, g.x), 32, Int2(1)),
                 32, Int2(3)), LAMBDA branch_1 :
        Bind(conv2d_bn_default(
                 conv2d_bn_default(
                     conv2d_bn_default(On(branch_1, g.x), 32, Int2(1)),
                     32, Int2(3)),
                 32, Int2(3)), LAMBDA branch_2 :
        [layers |-> branch_2.layers,
         branches |-> <<branch_0.x, branch_1.x, branch_2.x>>])))
    ELSE IF block_type = "block17" THEN
        Bind(conv2d_bn_default(g, 128, Int2(1)), LAMBDA branch_0 :
        Bind(conv2d_bn_default(
                 conv2d_bn_default(
                     conv2d_bn_default(On(branch_0, g.x), 128, Int2(1)),
                     128, <<1, 7>>),
                 128, <<7, 1>>), LAMBDA branch_1 :
        [layers |-> branch_1.layers,
         branches |-> <<branch_0.x, branch_1.x>>]))
    ELSE
        Bind(conv2d_bn_default(g, 192, Int2(1)), LAMBDA branch_0 :
        Bind(conv2d_bn_default(
                 conv2d_bn_default(
                     conv2d_bn_default(On(branch_0, g.x), 192, Int2(1)),
                     192, <<1, 3>>),
                 192, <<3, 1>>), LAMBDA branch_1 :
        [layers |-> branch_1.layers,
         branches |-> <<branch_0.x, branch_1.x>>]))

\* Residual with the projection width read on axis 3 under either data format
Residual_axis3(g, br, scale, block_type, idx, activation) ==
    LET block_name == block_type \o "_" \o ToString(idx)
        channel_axis == IF K.image_data_format = "channels_first" THEN 1 ELSE 3
        mixed == Bind(On(br, g.x), LAMBDA v :
                      Call(v, Concatenate(br.branches, channel_axis, block_name \o "_mixed")))
        up == conv2d_bn(mixed, At(g.x, 3), Int2(1), 1, "same",
                        None, TRUE, block_name \o "_conv")
        sum == Bind(up, LAMBDA v : Call(v, Lambda(<<g.x, v.x>>, Tail(g.x), scale, block_name)))
    IN  IF activation # None
        THEN Bind(sum, LAMBDA v : Call(v, Activation(v.x, activation, block_name \o "_ac")))
        ELSE sum

\* lines 155-171: concatenation, projection, scaled residual sum, activation
Residual(g, br, scale, block_type, idx, activation) ==
    LET block_name == block_type \o "_" \o ToString(idx)
        channel_axis == IF K.image_data_format = "channels_first" THEN 1 ELSE 3
        mixed == Bind(On(br, g.x), LAMBDA v :
                      Call(v, Concatenate(br.branches, channel_axis, block_name \o "_mixed")))
        up == conv2d_bn(mixed, At(g.x, channel_axis), Int2(1), 1, "same",
                        None, TRUE, block_name \o "_conv")
        sum == Bind(up, LAMBDA v : Call(v, Lambda(<<g.x, v.x>>, Tail(g.x), scale, block_name)))
    IN  IF activation # None
        THEN Bind(sum, LAMBDA v : Call(v, Activation(v.x, activation, block_name \o "_ac")))
        ELSE sum

\* inception_resnet_block whose last branch is a plain else: an unknown
\* block type is built as a block8
inception_resnet_block_lenient(g, scale, block_type, idx, activation) ==
    Bind(Branches(g, block_type), LAMBDA br :
    Bind(Residual(g, br, scale, block_type, idx, activation), LAMBDA r :
    [layers |-> r.layers, x |-> r.x, err |-> None]))

inception_resnet_block(g, scale, block_type, idx, activation) ==
    IF block_type \in BlockTypes
    THEN Bind(Branches(g, block_type), LAMBDA br :
         Bind(Residual(g, br, scale, block_type, idx, activation), LAMBDA r :
         [layers |-> r.layers, x |-> r.x, err |-> None]))
    ELSE [layers |-> g.layers, x |-> g.x, err |-> BlockTypeError]

\* Input(shape=...): the graph's input layer
Input(shape) == [op |-> "InputLayer", name |-> None, ins |-> <<>>, out |-> <<None>> \o shape]

(***************************************************************************)
(* SpecUnit: one call of conv2d_bn or of inception_resnet_block on an      *)
(* input tensor of any small shape, under either data format.             *)
(***************************************************************************)
Dims == (1..MaxDim) \cup {35}
Channels == (1..MaxChan) \cup {256}
DataFormats == {"channels_last", "channels_first"}
Backends == {"tensorflow", "theano"}
UnknownBlockTypes == {"block9", "Block35", "Mixed_6a"}

InitUnit ==
    /\ K \in [image_data_format : DataFormats, backend : {"tensorflow"}]
    /\ \E rows \in Dims, cols \in Dims, chans \in Channels :
          /\ layers = <<Input(Tail(Shape4(None, rows, cols, chans)))>>
          /\ x = Shape4(None, rows, cols, chans)
    /\ pc = "call"
    /\ args = Nil
    /\ img_input = Nil
    /\ block_idx = 0 /\ model = Nil /\ warns = <<>> /\ fetches = <<>>
    /\ loads = <<>> /\ err = None /\ result = Nil

\* the convolution primitive rejects a window larger than its input
ConvAccepts(t, kernel_size, strides, padding) ==
    /\ ConvOutLen(Rows(t), kernel_size[1], strides, padding) >= 1
    /\ ConvOutLen(Cols(t), kernel_size[2], strides, padding) >= 1

CallConv2dBn ==
    /\ pc = "call"
    /\ \E filters \in {1, 32}, kernel_size \in {Int2(1), Int2(3), <<1, 7>>},
          strides \in {1, 2}, padding \in {"same", "valid"},
          activation \in {"relu", None}, use_bias \in BOOLEAN,
          name \in {None, "Conv2d_1a_3x3"} :
          /\ ConvAccepts(x, kernel_size, strides, padding)
          /\ args' = [fn |-> "conv2d_bn", x |-> x, filters |-> filters,
                      kernel_size |-> kernel_size, strides |-> strides,
                      padding |-> padding, activation |-> activation,
                      use_bias |-> use_bias, name |-> name]
          /\ LET r == conv2d_bn([layers |-> layers, x |-> x], filters, kernel_size,
                                strides, padding, activation, use_bias, name)
             IN  /\ layers' = r.layers
                 /\ x' = r.x
                 /\ result' = r.x
    /\ pc' = "returned"
    /\ UNCHANGED <<K, img_input, block_idx, model, warns, fetches, loads, err>>

CallBlock ==
    /\ pc = "call"
    /\ \E scale \in {17, 100}, block_type \in BlockTypes \cup UnknownBlockTypes,
          idx \in {1, 10}, activation \in {"relu", None} :
          /\ args' = [fn |-> "inception_resnet_block", x |-> x, scale |-> scale,
                      block_type |-> block_type, block_idx |-> idx,
                      activation |-> activation]
          /\ LET r == inception_resnet_block([layers |-> layers, x |-> x], scale,
                                             block_type, idx, activation)
             IN  /\ layers' = r.layers
                 /\ x' = r.x
                 /\ err' = r.err
                 /\ result' = IF r.err = None THEN r.x ELSE Nil
                 /\ pc' = IF r.err = None THEN "returned" ELSE "raised"
    /\ UNCHANGED <<K, img_input, block_idx, model, warns, fetches, loads>>

NextUnit == CallConv2dBn \/ CallBlock

SpecUnit == InitUnit /\ [][NextUnit]_vars

(***************************************************************************)
(* InceptionResNetV1, lines 174-381.                                       *)
(***************************************************************************)

\* _obtain_input_shape: a 3-channel image shape no smaller than min_size in
\* each spatial dimension, or the default_size square when none is given
obtain_input_shape(input_shape, default_size, min_size, data_format, require_flatten, weights) ==
    LET rows == IF data_format = "channels_first" THEN input_shape[2] ELSE input_shape[1]
        cols == IF data_format = "channels_first" THEN input_shape[3] ELSE input_shape[2]
        chans == IF data_format = "channels_first" THEN input_shape[1] ELSE input_shape[3]
    IN  IF input_shape = Nil
        THEN [shape |-> IF data_format = "channels_first"
                        THEN <<3, default_size, default_size>>
                        ELSE <<default_size, default_size, 3>>,
              err |-> None]
        ELSE IF chans = 3 /\ rows >= min_size /\ cols >= min_size
        THEN [shape |-> input_shape, err |-> None]
        ELSE [shape |-> Nil, err |-> InputShapeError]

Sizes == {MinSize - 1} \cup (MinSize .. MinSize + MaxExtra) \cup {DefaultSize}

InputShapes ==
    {Nil} \cup {<<r, c, 3>> : r \in Sizes, c \in Sizes}
           \cup {<<3, r, c>> : r \in Sizes, c \in Sizes}
           \cup {<<DefaultSize, DefaultSize, 1>>, <<1, DefaultSize, DefaultSize>>}

Init ==
    /\ K \in [image_data_format : DataFormats, backend : Backends]
    /\ args \in [include_top : BOOLEAN,
                 weights : {"facenet", None, "imagenet"},
                 input_tensor : {None, "backend_tensor", "keras_tensor"},
                 input_shape : InputShapes,
                 pooling : {None, "avg", "max"},
                 classes : {DefaultClasses, 1000}]
    \* a shape is written in the order of the active data format
    /\ args.input_shape # Nil =>
          args.input_shape[IF K.image_data_format = "channels_first" THEN 1 ELSE 3] \in {1, 3}
    /\ pc = "check_weights"
    /\ img_input = Nil /\ x = Nil /\ layers = <<>> /\ block_idx = 0
    /\ model = Nil /\ warns = <<>> /\ fetches = <<>> /\ loads = <<>>
    /\ err = None /\ result = Nil

Raise(e) == pc' = "raised" /\ err' = e

\* lines 230-233
CheckWeights ==
    /\ pc = "check_weights"
    /\ IF args.weights \notin {"facenet", None}
       THEN Raise(WeightsArgError)
       ELSE pc' = "check_classes" /\ err' = err
    /\ UNCHANGED <<K, args, img_input, x, layers, block_idx, model, warns, fetches, loads, result>>

\* CheckClasses without the test of line 235
CheckClasses_skipped ==
    /\ pc = "check_classes"
    /\ pc' = "input_shape" /\ err' = err
    /\ UNCHANGED <<K, args, img_input, x, layers, block_idx, model, warns, fetches, loads, result>>

\* lines 235-237
CheckClasses ==
    /\ pc = "check_classes"
    /\ IF args.weights = "facenet" /\ args.include_top /\ args.classes # DefaultClasses
       THEN Raise(ClassesError)
       ELSE pc' = "input_shape" /\ err' = err
    /\ UNCHANGED <<K, args, img_input, x, layers, block_idx, model, warns, fetches, loads, result>>

\* ObtainInputShape with min_size=71
ObtainInputShape_min71 ==
    /\ pc = "input_shape"
    /\ LET r == obtain_input_shape(args.input_shape, DefaultSize, 71,
                                   K.image_data_format, FALSE, args.weights)
       IN  IF r.err # None
           THEN Raise(r.err) /\ args' = args
           ELSE /\ args' = [args EXCEPT !.input_shape = r.shape]
                /\ pc' = "input"
                /\ err' = err
    /\ UNCHANGED <<K, img_input, x, layers, block_idx, model, warns, fetches, loads, result>>

\* lines 240-246: the parameter input_shape is rebound to the checked shape
ObtainInputShape ==
    /\ pc = "input_shape"
    /\ LET r == obtain_input_shape(args.input_shape, DefaultSize, MinSize,
                                   K.image_data_format, FALSE, args.weights)
       IN  IF r.err # None
           THEN Raise(r.err) /\ args' = args
           ELSE /\ args' = [args EXCEPT !.input_shape = r.shape]
                /\ pc' = "input"
                /\ err' = err
    /\ UNCHANGED <<K, img_input, x, layers, block_idx, model, warns, fetches, loads, result>>

\* lines 248-254; a tensor passed as input_tensor has the shape input_shape
MakeInput ==
    /\ pc = "input"
    /\ IF args.input_tensor = None \/ args.input_tensor # "keras_tensor"
       THEN /\ layers' = Append(layers, Input(args.input_shape))
            /\ img_input' = Input(args.input_shape).out
       ELSE /\ layers' = layers
            /\ img_input' = <<None>> \o args.input_shape
    /\ pc' = "stem"
    /\ UNCHANGED <<K, args, x, block_idx, model, warns, fetches, loads, err, result>>

\* lines 257-263
Stem ==
    /\ pc = "stem"
    /\ LET g0 == [layers |-> layers, x |-> img_input]
           g1 == conv2d_bn(g0, 32, Int2(3), 2, "valid", "relu", FALSE, None)
           g2 == conv2d_bn(g1, 32, Int2(3), 1, "valid", "relu", FALSE, None)
           g3 == conv2d_bn_default(g2, 64, Int2(3))
           g4 == Bind(g3, LAMBDA v : Call(v, MaxPooling2D(v.x, 3, 2, "valid")))
           g5 == conv2d_bn(g4, 80, Int2(1), 1, "valid", "relu", FALSE, None)
           g6 == conv2d_bn(g5, 192, Int2(3), 1, "valid", "relu", FALSE, None)
           g7 == conv2d_bn(g6, 256, Int2(3), 2, "valid", "relu", FALSE, None)
       IN  layers' = g7.layers /\ x' = g7.x
    /\ pc' = "block35"
    /\ block_idx' = 1
    /\ UNCHANGED <<K, args, img_input, model, warns, fetches, loads, err, result>>

\* one iteration of `for block_idx in range(first, last + 1)` calling
\* inception_resnet_block with the default activation, then on to `after`
BlockLoop(at, last, scale, block_type, after, first_after) ==
    /\ pc = at
    /\ LET r == inception_resnet_block([layers |-> layers, x |-> x], scale,
                                       block_type, block_idx, "relu")
       IN  IF r.err # None
           THEN Raise(r.err) /\ UNCHANGED <<layers, x, block_idx>>
           ELSE /\ layers' = r.layers
                /\ x' = r.x
                /\ err' = err
                /\ IF block_idx < last
                   THEN pc' = at /\ block_idx' = block_idx + 1
                   ELSE pc' = after /\ block_idx' = first_after
    /\ UNCHANGED <<K, args, img_input, model, warns, fetches, loads, result>>

\* lines 265-270
Block35 == BlockLoop("block35", 5, 17, "block35", "mixed_6a", 5)

\* lines 272-290
Mixed6a ==
    /\ pc = "mixed_6a"
    /\ LET channel_axis == IF K.image_data_format = "channels_first" THEN 1 ELSE 3
           g == [layers |-> layers, x |-> x]
           branch_0 == conv2d_bn(g, 384, Int2(3), 2, "valid", "relu", FALSE, None)
           branch_1a == conv2d_bn_default(On(branch_0, x), 192, Int2(1))
           branch_1b == conv2d_bn_default(branch_1a, 192, Int2(3))
           branch_1 == conv2d_bn(branch_1b, 256, Int2(3), 2, "valid", "relu", FALSE, None)
           branch_pool == Bind(On(branch_1, x), LAMBDA v : Call(v, MaxPooling2D(v.x, 3, 2, "valid")))
           branches == <<branch_0.x, branch_1.x, branch_pool.x>>
           m == Bind(branch_pool, LAMBDA v : Call(v, Concatenate(branches, channel_axis, "Mixed_6a")))
       IN  layers' = m.layers /\ x' = m.x
    /\ pc' = "block17"
    /\ block_idx' = 1
    /\ UNCHANGED <<K, args, img_input, model, warns, fetches, loads, err, result>>

\* Block17 with range(1, 10): nine blocks
Block17_nine == BlockLoop("block17", 9, 10, "block17", "mixed_7a", 9)

\* lines 292-298
Block17 == BlockLoop("block17", 10, 10, "block17", "mixed_7a", 10)

\* lines 300-324
Mixed7a ==
    /\ pc = "mixed_7a"
    /\ LET channel_axis == IF K.image_data_format = "channels_first" THEN 1 ELSE 3
           g == [layers |-> layers, x |-> x]
           branch_0a == conv2d_bn_default(g, 256, Int2(1))
           branch_0 == conv2d_bn(branch_0a, 384, Int2(3), 2, "valid", "relu", FALSE, None)
           branch_1a == conv2d_bn_default(On(branch_0, x), 256, Int2(1))
           branch_1 == conv2d_bn(branch_1a, 256, Int2(3), 2, "valid", "relu", FALSE, None)
           branch_2a == conv2d_bn_default(On(branch_1, x), 256, Int2(1))
           branch_2b == conv2d_bn_default(branch_2a, 256, Int2(3))
           branch_2 == conv2d_bn(branch_2b, 256, Int2(3), 2, "valid", "relu", FALSE, None)
           branch_pool == Bind(On(branch_2, x), LAMBDA v : Call(v, MaxPooling2D(v.x, 3, 2, "valid")))
           branches == <<branch_0.x, branch_1.x, branch_2.x, branch_pool.x>>
           m == Bind(branch_pool, LAMBDA v : Call(v, Concatenate(branches, channel_axis, "Mixed_7a")))
       IN  layers' = m.layers /\ x' = m.x
    /\ pc' = "block8"
    /\ block_idx' = 1
    /\ UNCHANGED <<K, args, img_input, model, warns, fetches, loads, err, result>>

\* lines 326-331
Block8 == BlockLoop("block8", 5, 20, "block8", "block8_final", 5)

\* lines 333-337
FinalBlock8 ==
    /\ pc = "block8_final"
    /\ LET r == inception_resnet_block([layers |-> layers, x |-> x], 100,
                                       "block8", 6, None)
       IN  IF r.err # None
           THEN Raise(r.err) /\ UNCHANGED <<layers, x>>
           ELSE layers' = r.layers /\ x' = r.x /\ err' = err /\ pc' = "top"
    /\ UNCHANGED <<K, args, img_input, block_idx, model, warns, fetches, loads, result>>

\* Top with the pooling argument applied whether or not include_top is set
Top_pooling_always ==
    /\ pc = "top"
    /\ LET g == [layers |-> layers, x |-> x]
           h == IF args.pooling = "avg"
                THEN Bind(g, LAMBDA v : Call(v, GlobalAveragePooling2D(v.x, None)))
                ELSE IF args.pooling = "max"
                THEN Bind(g, LAMBDA v : Call(v, GlobalMaxPooling2D(v.x, None)))
                ELSE IF args.include_top
                THEN LET p == Bind(g, LAMBDA v : Call(v, GlobalAveragePooling2D(v.x, "avg_pool")))
                     IN  Bind(p, LAMBDA v : Call(v, Dense(v.x, args.classes, "softmax", "predictions")))
                ELSE g
       IN  layers' = h.layers /\ x' = h.x
    /\ pc' = "model"
    /\ UNCHANGED <<K, args, img_input, block_idx, model, warns, fetches, loads, err, result>>

\* lines 339-347
Top ==
    /\ pc = "top"
    /\ LET g == [layers |-> layers, x |-> x]
           h == IF args.include_top
                THEN LET p == Bind(g, LAMBDA v : Call(v, GlobalAveragePooling2D(v.x, "avg_pool")))
                     IN  Bind(p, LAMBDA v : Call(v, Dense(v.x, args.classes, "softmax", "predictions")))
                ELSE IF args.pooling = "avg"
                THEN Bind(g, LAMBDA v : Call(v, GlobalAveragePooling2D(v.x, None)))
                ELSE IF args.pooling = "max"
                THEN Bind(g, LAMBDA v : Call(v, GlobalMaxPooling2D(v.x, None)))
                ELSE g
       IN  layers' = h.layers /\ x' = h.x
    /\ pc' = "model"
    /\ UNCHANGED <<K, args, img_input, block_idx, model, warns, fetches, loads, err, result>>

\* lines 349-357
CreateModel ==
    /\ pc = "model"
    /\ LET inputs == IF args.input_tensor # None
                     THEN <<"source_inputs", args.input_tensor>>
                     ELSE img_input
       IN  model' = [inputs |-> inputs, outputs |-> x,
                     name |-> "inception_resnet_v1", weights |-> None]
    /\ pc' = "weights"
    /\ UNCHANGED <<K, args, img_input, x, layers, block_idx, warns, fetches, loads, err, result>>

\* line 360, weights is not 'facenet': nothing is loaded
SkipWeights ==
    /\ pc = "weights"
    /\ args.weights # "facenet"
    /\ pc' = "return"
    /\ UNCHANGED <<K, args, img_input, x, layers, block_idx, model, warns, fetches, loads, err, result>>

\* WarnDataFormat without the backend test of line 362
WarnDataFormat_any_backend ==
    /\ pc = "weights"
    /\ args.weights = "facenet"
    /\ warns' = IF K.image_data_format = "channels_first"
                THEN Append(warns, DataFormatWarning)
                ELSE warns
    /\ pc' = "top_check"
    /\ UNCHANGED <<K, args, img_input, x, layers, block_idx, model, fetches, loads, err, result>>

\* lines 360-370
WarnDataFormat ==
    /\ pc = "weights"
    /\ args.weights = "facenet"
    /\ warns' = IF K.image_data_format = "channels_first" /\ K.backend = "tensorflow"
                THEN Append(warns, DataFormatWarning)
                ELSE warns
    /\ pc' = "top_check"
    /\ UNCHANGED <<K, args, img_input, x, layers, block_idx, model, fetches, loads, err, result>>

\* RejectTop with get_file called before include_top is tested
RejectTop_after_fetch ==
    /\ pc = "top_check"
    /\ args.include_top
    /\ fetches' = Append(fetches, [fname |-> WeightsFilename,
                                   origin |-> BASE_WEIGHT_URL \o WeightsFilename,
                                   cache_subdir |-> "models",
                                   file_hash |-> WeightsHash])
    /\ Raise(NoTopError)
    /\ UNCHANGED <<K, args, img_input, x, layers, block_idx, model, warns, loads, result>>

\* lines 371-372
RejectTop ==
    /\ pc = "top_check"
    /\ args.include_top
    /\ Raise(NoTopError)
    /\ UNCHANGED <<K, args, img_input, x, layers, block_idx, model, warns, fetches, loads, result>>

\* GetFile asking for the weights file of the model with its top
GetFile_top_file ==
    /\ pc = "top_check"
    /\ ~args.include_top
    /\ fetches' = Append(fetches, [fname |-> "inception_resnet_v1_weights_tf_dim_ordering_tf_kernels.h5",
                                   origin |-> BASE_WEIGHT_URL \o "inception_resnet_v1_weights_tf_dim_ordering_tf_kernels.h5",
                                   cache_subdir |-> "models",
                                   file_hash |-> WeightsHash])
    /\ pc' = "load_weights"
    /\ UNCHANGED <<K, args, img_input, x, layers, block_idx, model, warns, loads, err, result>>

\* lines 373-378; get_file returns the path of the cached file
GetFile ==
    /\ pc = "top_check"
    /\ ~args.include_top
    /\ fetches' = Append(fetches, [fname |-> WeightsFilename,
                                   origin |-> BASE_WEIGHT_URL \o WeightsFilename,
                                   cache_subdir |-> "models",
                                   file_hash |-> WeightsHash])
    /\ pc' = "load_weights"
    /\ UNCHANGED <<K, args, img_input, x, layers, block_idx, model, warns, loads, err, result>>

\* line 379
LoadWeights ==
    /\ pc = "load_weights"
    /\ LET weights_path == "models/" \o fetches[Len(fetches)].fname
       IN  /\ loads' = Append(loads, weights_path)
           /\ model' = [model EXCEPT !.weights = weights_path]
    /\ pc' = "return"
    /\ UNCHANGED <<K, args, img_input, x, layers, block_idx, warns, fetches, err, result>>

\* line 381
Return ==
    /\ pc = "return"
    /\ result' = model
    /\ pc' = "returned"
    /\ UNCHANGED <<K, args, img_input, x, layers, block_idx, model, warns, fetches, loads, err>>

Next ==
    \/ CheckWeights \/ CheckClasses \/ ObtainInputShape \/ MakeInput
    \/ Stem \/ Block35 \/ Mixed6a \/ Block17 \/ Mixed7a \/ Block8
    \/ FinalBlock8 \/ Top \/ CreateModel
    \/ SkipWeights \/ WarnDataFormat \/ RejectTop \/ GetFile \/ LoadWeights
    \/ Return

Spec == Init /\ [][Next]_vars

(***************************************************************************)
(* Auxiliary definitions of the properties.                                *)
(***************************************************************************)
IsPrefix(a, b) == Len(a) <= Len(b) /\ a = SubSeq(b, 1, Len(a))

Map(f(_), q) == [i \in 1..Len(q) |-> f(q[i])]

IsConv(l) == l.op = "Conv2D"
IsNamed(l) == l.name # None
IsHeadLayer(l) == l.op \in {"GlobalAveragePooling2D", "GlobalMaxPooling2D", "Dense"}

ConvParams(l) == <<l.filters, l.kernel_size, l.strides, l.padding>>
NameAndScale(l) == <<l.op, l.name, IF l.op = "Lambda" THEN l.scale ELSE 0>>

\* the convolutions of the graph, in build order
ConvTrace == Map(ConvParams, SelectSeq(layers, IsConv))

\* the index of the layer called name
IndexOf(name) == CHOOSE i \in 1..Len(layers) : layers[i].name = name
HasLayer(name) == \E i \in 1..Len(layers) : layers[i].name = name

\* positions of InceptionResNetV1 at which the last block8 has been built
HeadPcs == {"model", "weights", "top_check", "load_weights", "return", "returned"}
BodyBuilt == pc \in HeadPcs \cup {"top"} \/ (pc = "raised" /\ err = NoTopError)
HeadBuilt == pc \in HeadPcs \/ (pc = "raised" /\ err = NoTopError)

(***************************************************************************)
(* C1.  The stages are built in the order stem, 5 block35 (scale 0.17),    *)
(* Mixed_6a, 10 block17 (scale 0.1), Mixed_7a, 5 block8 (scale 0.2), one   *)
(* block8 with scale 1.0 and no final activation, then the head, whatever  *)
(* include_top, pooling, weights and classes are: at every moment the      *)
(* layers built so far are a prefix of that sequence, and once the last    *)
(* block is built they are the whole of it, followed by head layers only.  *)
(***************************************************************************)
ExpectedBlock(type, idx, scale, activated) ==
    LET n == type \o "_" \o ToString(idx)
    IN  <<<<"Concatenate", n \o "_mixed", 0>>, <<"Conv2D", n \o "_conv", 0>>,
          <<"Lambda", n, scale>>>>
        \o (IF activated THEN <<<<"Activation", n \o "_ac", 0>>>> ELSE <<>>)

RECURSIVE ExpectedBlocks(_, _, _, _)
ExpectedBlocks(type, scale, from, to) ==
    IF from > to THEN <<>>
    ELSE ExpectedBlock(type, from, scale, TRUE) \o ExpectedBlocks(type, scale, from + 1, to)

ExpectedStages ==
    ExpectedBlocks("block35", 17, 1, 5)
    \o <<<<"Concatenate", "Mixed_6a", 0>>>>
    \o ExpectedBlocks("block17", 10, 1, 10)
    \o <<<<"Concatenate", "Mixed_7a", 0>>>>
    \o ExpectedBlocks("block8", 20, 1, 5)
    \o ExpectedBlock("block8", 6, 100, FALSE)

RECURSIVE Times(_, _)
Times(q, n) == IF n = 0 THEN <<>> ELSE q \o Times(q, n - 1)

Cv(filters, kernel_size) == <<filters, kernel_size, 1, "same">>
Cv2(filters) == <<filters, <<3, 3>>, 2, "valid">>

ExpectedConvs ==
    <<Cv2(32), <<32, <<3, 3>>, 1, "valid">>, Cv(64, <<3, 3>>),
      <<80, <<1, 1>>, 1, "valid">>, <<192, <<3, 3>>, 1, "valid">>, Cv2(256)>>
    \o Times(<<Cv(32, <<1, 1>>), Cv(32, <<1, 1>>), Cv(32, <<3, 3>>),
               Cv(32, <<1, 1>>), Cv(32, <<3, 3>>), Cv(32, <<3, 3>>),
               Cv(256, <<1, 1>>)>>, 5)
    \o <<Cv2(384), Cv(192, <<1, 1>>), Cv(192, <<3, 3>>), Cv2(256)>>
    \o Times(<<Cv(128, <<1, 1>>), Cv(128, <<1, 1>>), Cv(128, <<1, 7>>),
               Cv(128, <<7, 1>>), Cv(896, <<1, 1>>)>>, 10)
    \o <<Cv(256, <<1, 1>>), Cv2(384), Cv(256, <<1, 1>>), Cv2(256),
         Cv(256, <<1, 1>>), Cv(256, <<3, 3>>), Cv2(256)>>
    \o Times(<<Cv(192, <<1, 1>>), Cv(192, <<1, 1>>), Cv(192, <<1, 3>>),
               Cv(192, <<3, 1>>), Cv(1792, <<1, 1>>)>>, 6)

IsStageLayer(l) == IsNamed(l) /\ ~IsHeadLayer(l)
StageTrace == Map(NameAndScale, SelectSeq(layers, IsStageLayer))

C1_BuildOrder ==
    /\ IsPrefix(StageTrace, ExpectedStages)
    /\ IsPrefix(ConvTrace, ExpectedConvs)
    /\ BodyBuilt =>
          /\ StageTrace = ExpectedStages
          /\ ConvTrace = ExpectedConvs
          /\ LET last == IndexOf("block8_6")
             IN  \A i \in 1..Len(layers) : i > last <=> IsHeadLayer(layers[i])
    /\ pc = "returned" => BodyBuilt

C1_Witness ==
    /\ pc = "returned"
    /\ StageTrace = ExpectedStages
    /\ args.include_top /\ args.pooling = "max" /\ args.classes # DefaultClasses

(***************************************************************************)
(* C2.  As claimed: with include_top=True and weights='facenet', for every *)
(* value of classes, the call fails with the 'currently does not support   *)
(* top' ValueError and never returns a model.                              *)
(***************************************************************************)
TopWithPretrained == args.include_top /\ args.weights = "facenet"

C2_AlwaysNotSupported ==
    TopWithPretrained =>
       /\ pc # "returned" /\ result = Nil
       /\ pc = "raised" => err = NoTopError

(***************************************************************************)
(* C2, amended.  With include_top=True and weights='facenet' the call      *)
(* never returns a model and fails with a ValueError: the 'classes should  *)
(* be 44051' error, before anything is built, when classes is not 44051;   *)
(* otherwise the input shape error when the shape is rejected, and the     *)
(* 'currently does not support top' error, after the graph and the Model   *)
(* are built, when it is accepted.                                         *)
(***************************************************************************)
C2_FailsByClassCount ==
    TopWithPretrained =>
       /\ pc \notin {"load_weights", "return", "returned"} /\ result = Nil
       /\ pc = "raised" =>
             /\ args.classes # DefaultClasses =>
                   err = ClassesError /\ layers = <<>> /\ model = Nil
             /\ args.classes = DefaultClasses =>
                   /\ err \in {InputShapeError, NoTopError}
                   /\ err = InputShapeError <=> layers = <<>>
                   /\ err = NoTopError <=> model # Nil

C2_Witness ==
    /\ TopWithPretrained /\ pc = "raised" /\ err = NoTopError
    /\ args.classes = DefaultClasses /\ model # Nil

(***************************************************************************)
(* C3.  A run that ends in a configuration error has made no get_file call *)
(* and no load_weights call, and returns nothing; the invalid weights      *)
(* selector and include_top=True with pretrained weights end that way.     *)
(***************************************************************************)
C3_NoFetchOnError ==
    /\ pc = "raised" => fetches = <<>> /\ loads = <<>> /\ result = Nil
    /\ (args.weights \notin {"facenet", None} \/ TopWithPretrained) =>
          fetches = <<>> /\ loads = <<>> /\ result = Nil /\ pc # "returned"

C3_Witness ==
    /\ pc = "raised" /\ err = NoTopError /\ model # Nil
    /\ fetches = <<>> /\ loads = <<>>

(***************************************************************************)
(* C4.  With the default input shape, weights='facenet' and                *)
(* include_top=False there is exactly one get_file call, with the fixed    *)
(* URL and hash, made after the graph and the Model are built; exactly one *)
(* load_weights into that model follows, and the model is returned with no *)
(* error.  With weights=None there is never a fetch or a load.             *)
(***************************************************************************)
DefaultShaped ==
    args.input_shape \in {Nil, <<DefaultSize, DefaultSize, 3>>, <<3, DefaultSize, DefaultSize>>}

TheFetch ==
    [fname |-> "inception_resnet_v1_weights_tf_dim_ordering_tf_kernels_notop.h5",
     origin |-> "https://github.com/yunhaia/keras-inception-resnet-v2/releases/download/0.2/inception_resnet_v1_weights_tf_dim_ordering_tf_kernels_notop.h5",
     cache_subdir |-> "models",
     file_hash |-> "f691b708b23c3eb2e03a453625f4209c"]

C4_OneFetchThenLoad ==
    /\ (args.weights = "facenet" /\ ~args.include_top /\ DefaultShaped) =>
          /\ pc # "raised" /\ err = None
          /\ fetches \in {<<>>, <<TheFetch>>}
          /\ Len(loads) <= Len(fetches)
          /\ fetches # <<>> =>
                /\ model # Nil /\ model.outputs = x
                /\ StageTrace = ExpectedStages
          /\ loads # <<>> => Len(loads) = 1 /\ model.weights = loads[1]
          /\ pc = "returned" =>
                /\ Len(fetches) = 1 /\ Len(loads) = 1
                /\ result = model /\ result.weights = loads[1]
    /\ args.weights = None => fetches = <<>> /\ loads = <<>>

C4_Witness ==
    /\ args.weights = "facenet" /\ ~args.include_top /\ DefaultShaped
    /\ pc = "returned" /\ fetches = <<TheFetch>> /\ Len(loads) = 1

(***************************************************************************)
(* C6.  The head is one of two exclusive forms.  With include_top the      *)
(* layers after the last block are a global average pooling and a dense    *)
(* layer of `classes` units with softmax, whatever pooling is.  Without    *)
(* include_top there is no dense layer: the output is the last block's 4D  *)
(* tensor for pooling=None, and for 'avg' / 'max' the 2D output of a       *)
(* global average / max pooling whose width is the last block's channel    *)
(* count, 1792 = 384+256+256+896, where 896 = 384+256+256 on a             *)
(* 256-channel stem.                                                       *)
(***************************************************************************)
HeadLayers == SubSeq(layers, IndexOf("block8_6") + 1, Len(layers))
LastBlockOut == layers[IndexOf("block8_6")].out

OpAndName(l) == <<l.op, l.name>>

C6_HeadSelection ==
    HeadBuilt =>
       /\ Chans(layers[IndexOf("block35_1_mixed")].ins[1]) = 32
       /\ Chans(layers[IndexOf("block35_1")].out) = 256
       /\ Chans(layers[IndexOf("Mixed_6a")].out) = 896
       /\ Chans(layers[IndexOf("Mixed_7a")].out) = 1792
       /\ Chans(LastBlockOut) = 1792
       /\ model # Nil => model.outputs = x
       /\ args.include_top =>
             /\ Map(OpAndName, HeadLayers) =
                   <<<<"GlobalAveragePooling2D", "avg_pool">>, <<"Dense", "predictions">>>>
             /\ HeadLayers[1].ins = <<LastBlockOut>>
             /\ HeadLayers[2].ins = <<HeadLayers[1].out>>
             /\ HeadLayers[2].units = args.classes
             /\ HeadLayers[2].activation = "softmax"
             /\ x = <<None, args.classes>>
       /\ ~args.include_top =>
             /\ \A i \in 1..Len(layers) : layers[i].op # "Dense"
             /\ args.pooling = None =>
                   HeadLayers = <<>> /\ x = LastBlockOut /\ Len(x) = 4
             /\ args.pooling = "avg" =>
                   /\ Map(OpAndName, HeadLayers) = <<<<"GlobalAveragePooling2D", None>>>>
                   /\ HeadLayers[1].ins = <<LastBlockOut>>
                   /\ x = <<None, 1792>>
             /\ args.pooling = "max" =>
                   /\ Map(OpAndName, HeadLayers) = <<<<"GlobalMaxPooling2D", None>>>>
                   /\ HeadLayers[1].ins = <<LastBlockOut>>
                   /\ x = <<None, 1792>>

C6_Witness ==
    /\ pc = "returned" /\ ~args.include_top /\ args.pooling = "avg"
    /\ args.weights = None /\ x = <<None, 1792>> /\ result.outputs = x

(***************************************************************************)
(* C7.  As claimed: whenever pretrained weights are requested under        *)
(* channels_first a warning is raised, whatever the backend is (stated on  *)
(* the runs that return a model).                                          *)
(***************************************************************************)
C7_WarnsOnAnyBackend ==
    (pc = "returned" /\ args.weights = "facenet"
        /\ K.image_data_format = "channels_first") => warns # <<>>

(***************************************************************************)
(* C7, amended.  The warning is raised exactly when pretrained weights are *)
(* requested, the ordering is channels_first, the backend is TensorFlow    *)
(* and construction has reached the weight-loading step; it is raised once *)
(* and is not fatal: with include_top=False such a run never raises and    *)
(* goes on to the fetch, the weight load and the return of the model.      *)
(* With channels_last, with weights=None or with another backend no        *)
(* warning is ever raised.                                                 *)
(***************************************************************************)
PastWarning ==
    pc \in {"top_check", "load_weights", "return", "returned"}
    \/ (pc = "raised" /\ err = NoTopError)

C7_WarnsOnTensorFlowOnly ==
    LET due == /\ args.weights = "facenet"
               /\ K.image_data_format = "channels_first"
               /\ K.backend = "tensorflow"
    IN  /\ warns # <<>> => due /\ warns = <<DataFormatWarning>>
        /\ (due /\ PastWarning) => warns = <<DataFormatWarning>>
        /\ (warns # <<>> /\ ~args.include_top) =>
              /\ pc # "raised" /\ err = None
              /\ pc = "returned" =>
                    Len(fetches) = 1 /\ Len(loads) = 1 /\ result = model

C7_Witness ==
    /\ pc = "returned" /\ warns = <<DataFormatWarning>> /\ ~args.include_top
    /\ Len(fetches) = 1 /\ Len(loads) = 1 /\ result = model

(***************************************************************************)
(* C10.  For every accepted input (height and width at least 139) every    *)
(* layer has a spatial output of at least 1 in each dimension; the stride  *)
(* 2 'valid' 3x3 convolutions and poolings map size n to                   *)
(* floor((n-3)/2)+1, the stride 1 'valid' 3x3 convolutions map n to n-2;   *)
(* the final feature map is at least 3x3; for the 299x299 input the        *)
(* block35, block17 and block8 stages work on 35x35, 17x17 and 8x8 maps.   *)
(***************************************************************************)
Is4D(l) == Len(l.out) = 4

Window(l) ==
    IF l.op = "Conv2D" THEN l.kernel_size ELSE <<l.pool_size, l.pool_size>>

BlockSize(name, n) ==
    HasLayer(name) =>
       LET l == layers[IndexOf(name)]
       IN  Rows(l.out) = n /\ Cols(l.out) = n /\ Rows(l.ins[1]) = n /\ Cols(l.ins[1]) = n

C10_SpatialSizes ==
    /\ layers # <<>> =>
          /\ Rows(img_input) >= 139 /\ Cols(img_input) >= 139
    /\ \A i \in 1..Len(layers) :
          LET l == layers[i]
          IN  /\ Is4D(l) => Rows(l.out) >= 1 /\ Cols(l.out) >= 1
              /\ (l.op \in {"Conv2D", "MaxPooling2D"} /\ l.padding = "valid"
                     /\ Window(l) = <<3, 3>>) =>
                    IF l.strides = 2
                    THEN /\ Rows(l.out) = (Rows(l.ins[1]) - 3) \div 2 + 1
                         /\ Cols(l.out) = (Cols(l.ins[1]) - 3) \div 2 + 1
                    ELSE /\ Rows(l.out) = Rows(l.ins[1]) - 2
                         /\ Cols(l.out) = Cols(l.ins[1]) - 2
    /\ BodyBuilt => Rows(LastBlockOut) >= 3 /\ Cols(LastBlockOut) >= 3
    /\ (layers # <<>> /\ Rows(img_input) = 299 /\ Cols(img_input) = 299) =>
          /\ \A k \in 1..5 : BlockSize("block35_" \o ToString(k), 35)
          /\ \A k \in 1..10 : BlockSize("block17_" \o ToString(k), 17)
          /\ \A k \in 1..6 : BlockSize("block8_" \o ToString(k), 8)

C10_Witness ==
    /\ pc = "returned"
    /\ Rows(img_input) = 139 /\ Cols(img_input) = 140
    /\ Rows(LastBlockOut) = 3 /\ Cols(LastBlockOut) = 3

C10_WitnessDefault ==
    /\ pc = "returned"
    /\ Rows(img_input) = 299 /\ Cols(img_input) = 299
    /\ Rows(LastBlockOut) = 8

(***************************************************************************)
(* Properties of one call of a helper function, under SpecUnit.            *)
(***************************************************************************)
BlockReturned == pc = "returned" /\ args.fn = "inception_resnet_block"
BlockName == args.block_type \o "_" \o ToString(args.block_idx)

(***************************************************************************)
(* C5.  For each of the three block types, every input shape and both      *)
(* data formats, inception_resnet_block returns a tensor of the shape of   *)
(* its input: every branch keeps the spatial size, the 1x1 projection has  *)
(* as many filters as the input has channels on the active channel axis,   *)
(* and the residual sum adds two tensors of the same shape.                *)
(***************************************************************************)
C5_BlockKeepsShape ==
    BlockReturned =>
       LET cat == layers[IndexOf(BlockName \o "_mixed")]
           proj == layers[IndexOf(BlockName \o "_conv")]
           sum == layers[IndexOf(BlockName)]
       IN  /\ x = args.x /\ result = args.x
           /\ \A b \in 1..Len(cat.ins) :
                 Rows(cat.ins[b]) = Rows(args.x) /\ Cols(cat.ins[b]) = Cols(args.x)
           /\ \A i \in 2..Len(layers) :
                 layers[i].op = "Conv2D" =>
                    layers[i].strides = 1 /\ layers[i].padding = "same"
           /\ proj.op = "Conv2D" /\ proj.kernel_size = <<1, 1>>
           /\ proj.filters = Chans(args.x)
           /\ proj.ins = <<cat.out>>
           /\ proj.out = args.x
           /\ sum.op = "Lambda" /\ sum.ins = <<args.x, proj.out>>
           /\ sum.ins[1] = sum.ins[2]
           /\ sum.out = args.x

C5_Witness ==
    /\ BlockReturned /\ args.block_type = "block17"
    /\ K.image_data_format = "channels_first"
    /\ Chans(args.x) = 256 /\ Rows(args.x) = 1 /\ Cols(args.x) = 3
    /\ x = args.x

(***************************************************************************)
(* C8.  For every block_type other than 'block35', 'block17' and 'block8', *)
(* inception_resnet_block raises ValueError and the graph after the call   *)
(* is the graph before it: no layer has been added.                        *)
(***************************************************************************)
C8_UnknownBlockAddsNothing ==
    [][(pc = "call" /\ pc' # "call" /\ args'.fn = "inception_resnet_block"
           /\ args'.block_type \notin {"block35", "block17", "block8"}) =>
          /\ pc' = "raised" /\ err' = BlockTypeError
          /\ layers' = layers /\ result' = Nil]_vars

C8_Witness ==
    /\ pc = "raised" /\ err = BlockTypeError
    /\ args.fn = "inception_resnet_block" /\ args.block_type = "Block35"
    /\ Len(layers) = 1

(***************************************************************************)
(* C9.  conv2d_bn emits, in this order, one convolution; a batch           *)
(* normalization on the channel axis (1 for channels_first, 3 otherwise)   *)
(* with scale disabled, if and only if use_bias is false; an activation if *)
(* and only if activation is not None.  With a base name the               *)
(* normalization is called name_bn and the activation name_ac; without one *)
(* the three layers are unnamed.  So the projection of a residual block    *)
(* (use_bias=True, activation=None) is a lone convolution.                 *)
(***************************************************************************)
ConvReturned == pc = "returned" /\ args.fn = "conv2d_bn"
Emitted == SubSeq(layers, 2, Len(layers))
Op(l) == l.op

C9_ConvBnLayers ==
    /\ ConvReturned =>
          /\ Map(Op, Emitted) =
                <<"Conv2D">>
                \o (IF ~args.use_bias THEN <<"BatchNormalization">> ELSE <<>>)
                \o (IF args.activation # None THEN <<"Activation">> ELSE <<>>)
          /\ ConvParams(Emitted[1]) =
                <<args.filters, args.kernel_size, args.strides, args.padding>>
          /\ Emitted[1].use_bias = args.use_bias
          /\ Emitted[1].name = args.name
          /\ Emitted[1].ins = <<args.x>>
          /\ \A i \in 2..Len(Emitted) : Emitted[i].ins = <<Emitted[i - 1].out>>
          /\ x = Emitted[Len(Emitted)].out
          /\ \A i \in 1..Len(Emitted) :
                /\ Emitted[i].op = "BatchNormalization" =>
                      /\ Emitted[i].axis =
                            (IF K.image_data_format = "channels_first" THEN 1 ELSE 3)
                      /\ Emitted[i].scale = FALSE
                      /\ Emitted[i].name =
                            (IF args.name = None THEN None ELSE args.name \o "_bn")
                /\ Emitted[i].op = "Activation" =>
                      /\ Emitted[i].activation = args.activation
                      /\ Emitted[i].name =
                            (IF args.name = None THEN None ELSE args.name \o "_ac")
    /\ BlockReturned =>
          LET p == IndexOf(BlockName \o "_conv")
          IN  /\ layers[p].op = "Conv2D" /\ layers[p].use_bias
              /\ layers[p - 1].op = "Concatenate"
              /\ layers[p + 1].op = "Lambda"
              /\ ~HasLayer(BlockName \o "_conv_bn")
              /\ ~HasLayer(BlockName \o "_conv_ac")

C9_Witness ==
    /\ ConvReturned /\ ~args.use_bias /\ args.activation # None
    /\ args.name = "Conv2d_1a_3x3"
    /\ Map(OpAndName, Emitted) =
          <<<<"Conv2D", "Conv2d_1a_3x3">>,
            <<"BatchNormalization", "Conv2d_1a_3x3_bn">>,
            <<"Activation", "Conv2d_1a_3x3_ac">>>>

C9_WitnessProjection ==
    /\ BlockReturned /\ HasLayer(BlockName \o "_conv")

====
